---- MODULE Spec2Model ----
(***************************************************************************)
(* State-machine model of sbpy/activity/gas.py: the GasComa base class,    *)
(* the Haser coma model and the aperture integration helper                *)
(* GasComa._integrate_column_density.                                      *)
(*                                                                         *)
(* Physical quantities are exact: a Quantity is an integer value with a    *)
(* unit, a quotient of two quantities is a reduced fraction (den = 0 for   *)
(* the IEEE results inf and nan), and the transcendental functions         *)
(* (exp, iti0k0, k1, quad, dblquad) are kept as uninterpreted terms, so    *)
(* that two results are equal exactly when the code evaluates the same     *)
(* closed form on the same operands.                                       *)
(***************************************************************************)
EXTENDS Integers, Sequences, FiniteSets, Bags, TLC

\* Largest lengthscale, radius and aperture dimension (km or arcsec).
MaxLen == 2
VARIABLES
    inst,             \* the caller's Haser instance, or NoInst
    bib,              \* keys registered with sbpy.bib
    scipy_special,    \* whether "from scipy.special import ..." succeeds
    scipy_integrate,  \* whether "from scipy.integrate import ..." succeeds
    last              \* the most recent operation: its arguments and outcome

vars == <<inst, bib, scipy_special, scipy_integrate, last>>

----------------------------------------------------------------------------
(* Python objects *)

NoneObj == [cls |-> "NoneType", val |-> 0, unit |-> "none"]
Qty(n, un) == [cls |-> "Quantity", val |-> n, unit |-> un]
Bare(n) == [cls |-> "float", val |-> n, unit |-> "none"]
Km(n) == Qty(n, "km")

NoInst == [cls |-> "NoneType"]
NoEph == [cls |-> "NoneType", delta |-> 0]
Eph(d) == [cls |-> "Ephem", delta |-> d]

Aper(kind, dims, un) == [cls |-> kind, dims |-> dims, unit |-> un]

ApertureKinds == {"CircularAperture", "AnnularAperture", "RectangularAperture",
                  "GaussianAperture", "OtherAperture"}

\* isinstance(x, u.Quantity)
IsQuantity(x) == x.cls = "Quantity"
\* isinstance(aper, Aperture)
IsAperture(x) == x.cls \in ApertureKinds
\* x is None
IsNone(x) == x.cls = "NoneType"
\* x == 0 for a Quantity: astropy compares 0 with a quantity of any unit
IsZero(x) == IsQuantity(x) /\ x.val = 0

----------------------------------------------------------------------------
(* Exact arithmetic *)

Abs(n) == IF n < 0 THEN -n ELSE n
Sgn(n) == IF n < 0 THEN -1 ELSE IF n = 0 THEN 0 ELSE 1

RECURSIVE GCD(_, _)
GCD(a, b) == IF b = 0 THEN a ELSE GCD(b, a % b)

\* n / d as numpy divides: a reduced fraction, or inf (1/0), -inf (-1/0), nan (0/0)
Quot(n, d) ==
    IF d = 0 THEN [num |-> Sgn(n), den |-> 0]
    ELSE LET g == GCD(Abs(n), Abs(d))
         IN  [num |-> (Sgn(d) * n) \div g, den |-> Abs(d) \div g]

\* the literal 0 bound to x or y when a lengthscale is None
ZeroRat == [num |-> 0, den |-> 1]

----------------------------------------------------------------------------
(* Outcomes of a call: a returned value or a raised exception, with the    *)
(* warnings emitted and the zero divisors used on the way.                 *)

NoneVal == [form |-> "None"]

Ret(v, w, z) == [kind |-> "return", exc |-> "", val |-> v, warns |-> w, zerodiv |-> z]
Raise(e, w, z) == [kind |-> "raise", exc |-> e, val |-> NoneVal, warns |-> w, zerodiv |-> z]

\* numpy warns "divide by zero" / "invalid value" when a divisor is zero
WithRuntime(w, z) == IF z = {} THEN w ELSE w \cup {"RuntimeWarning"}

\* Quantity.decompose(): the same value expressed in SI base units
Decompose(t) == [t EXCEPT !.si = TRUE]

----------------------------------------------------------------------------
(* Construction *)

UnitsOfQ == {"1/s", "mol/s"}

\* GasComa.__init__ without the assertion on the unit of v
GasComaInit_NoSpeedCheck(Q, v) ==
    IF ~IsQuantity(Q) THEN "AssertionError"
    ELSE IF Q.unit \notin UnitsOfQ THEN "AssertionError"
    ELSE IF ~IsQuantity(v) THEN "AssertionError"
    ELSE ""

\* GasComa.__init__: "" when every assertion passes
GasComaInit(Q, v) ==
    IF ~IsQuantity(Q) THEN "AssertionError"
    ELSE IF Q.unit \notin UnitsOfQ THEN "AssertionError"
    ELSE IF ~IsQuantity(v) THEN "AssertionError"
    ELSE IF v.unit # "km/s" THEN "AssertionError"
    ELSE ""

\* the assertions of Haser.__init__ on parent and daughter
HaserLengthscales(parent, daughter) ==
    IF ~IsQuantity(parent) THEN "AssertionError"
    ELSE IF parent.unit # "km" THEN "AssertionError"
    ELSE IF IsNone(daughter) THEN ""
    ELSE IF ~IsQuantity(daughter) THEN "AssertionError"
    ELSE IF daughter.unit # "km" THEN "AssertionError"
    ELSE ""

\* Haser.__init__: the exception raised (or ""), the instance produced, and
\* whether bib.register was reached
HaserInit(Q, v, parent, daughter) ==
    LET base == GasComaInit(Q, v)
        own == HaserLengthscales(parent, daughter)
    IN  IF base # "" THEN [exc |-> base, self |-> NoInst, registered |-> FALSE]
        ELSE IF own # "" THEN [exc |-> own, self |-> NoInst, registered |-> TRUE]
        ELSE [exc |-> "",
              self |-> [cls |-> "Haser", Q |-> Q, v |-> v,
                        parent |-> parent, daughter |-> daughter],
              registered |-> TRUE]

----------------------------------------------------------------------------
(* Unit conversion by the geometry collaborator (sbpy.activity.core) *)

\* projected length subtended by angle theta at geocentric distance delta
AngleToLength(theta, delta) == delta * theta

\* rho_as_length(rho, eph): a length passes through, an angle needs eph['delta']
RhoAsLength(rho, eph) ==
    IF ~IsQuantity(rho) THEN [exc |-> "ValidationError", r |-> Km(0)]
    ELSE IF rho.unit = "km" THEN [exc |-> "", r |-> rho]
    ELSE IF rho.unit = "arcsec" /\ ~IsNone(eph)
         THEN [exc |-> "", r |-> Km(AngleToLength(rho.val, eph.delta))]
    ELSE [exc |-> "ValidationError", r |-> Km(0)]

\* Aperture.as_length(eph): a new aperture of the same kind in linear units
AsLength(aper, eph) ==
    IF aper.unit = "km" THEN [exc |-> "", aper |-> aper]
    ELSE IF aper.unit = "arcsec" /\ ~IsNone(eph)
         THEN [exc |-> "",
               aper |-> Aper(aper.cls,
                             [i \in DOMAIN aper.dims |->
                                  AngleToLength(aper.dims[i], eph.delta)],
                             "km")]
    ELSE [exc |-> "ValidationError", aper |-> aper]

----------------------------------------------------------------------------
(* Haser.volume_density *)

VolumeDensity(self, r) ==
    IF ~IsQuantity(r) THEN Raise("AssertionError", {}, {})
    ELSE IF r.unit # "km" THEN Raise("AssertionError", {}, {})
    ELSE IF IsNone(self.daughter) \/ IsZero(self.daughter)
    THEN \* parent only
         LET z == IF self.parent.val = 0 THEN {"parent"} ELSE {}
         IN  Ret(Decompose([form |-> "Q/(4 pi r^2 v) * exp(-x)", si |-> FALSE,
                            Q |-> self.Q, v |-> self.v, r |-> r.val,
                            x |-> Quot(r.val, self.parent.val)]),
                 WithRuntime({}, z), z)
    ELSE LET z == (IF self.parent.val = self.daughter.val
                      THEN {"parent-daughter"} ELSE {})
                  \cup (IF self.parent.val = 0 THEN {"parent"} ELSE {})
         IN  Ret(Decompose([form |-> "Q/(4 pi r^2 v) * coef * (exp(-x) - exp(-y))",
                            si |-> FALSE,
                            Q |-> self.Q, v |-> self.v, r |-> r.val,
                            coef |-> Quot(self.daughter.val,
                                          self.parent.val - self.daughter.val),
                            x |-> Quot(r.val, self.parent.val),
                            y |-> Quot(r.val, self.daughter.val)]),
                 WithRuntime({}, z), z)

----------------------------------------------------------------------------
(* Special functions: scipy.special is a soft dependency *)

\* Haser._iK0: None with a warning when scipy.special cannot be imported
iK0(x, special) ==
    IF special THEN [none |-> FALSE, fn |-> "iti0k0[1]", arg |-> x, warns |-> {}]
    ELSE [none |-> TRUE, fn |-> "None", arg |-> x, warns |-> {"AstropyWarning"}]

\* Haser._K1
K1(x, special) ==
    IF special THEN [none |-> FALSE, fn |-> "k1", arg |-> x, warns |-> {}]
    ELSE [none |-> TRUE, fn |-> "None", arg |-> x, warns |-> {"AstropyWarning"}]

\* x = 0 if lengthscale is None else r / lengthscale
ScaledRadius(r, scale) ==
    IF IsNone(scale) THEN ZeroRat ELSE Quot(r.val, scale.val)

\* the zero divisors met while binding x and y
ScaleZeroDiv(self) ==
    (IF IsZero(self.parent) THEN {"parent"} ELSE {})
    \cup (IF IsZero(self.daughter) THEN {"daughter"} ELSE {})

----------------------------------------------------------------------------
(* Haser.column_density *)

\* the body of column_density once rho is a linear distance r
ColumnDensityAt(self, r, special) ==
    LET x == ScaledRadius(r, self.parent)
        y == ScaledRadius(r, self.daughter)
        z0 == ScaleZeroDiv(self)
    IN  IF IsNone(self.daughter) \/ IsZero(self.daughter)
        THEN LET i == iK0(x, special)
             IN  IF i.none
                 THEN Raise("TypeError", WithRuntime(i.warns, z0), z0)
                 ELSE Ret([form |-> "Q/(2 pi r v) * (pi/2 - iK0(arg))", si |-> FALSE,
                           Q |-> self.Q, v |-> self.v, r |-> r.val, arg |-> x],
                          WithRuntime({}, z0), z0)
        ELSE IF IsNone(self.parent) \/ IsZero(self.parent)
        THEN LET i == iK0(y, special)
             IN  IF i.none
                 THEN Raise("TypeError", WithRuntime(i.warns, z0), z0)
                 ELSE Ret([form |-> "Q/(2 pi r v) * (pi/2 - iK0(arg))", si |-> FALSE,
                           Q |-> self.Q, v |-> self.v, r |-> r.val, arg |-> y],
                          WithRuntime({}, z0), z0)
        ELSE LET lt == self.parent.val < self.daughter.val
                 coef == IF lt
                         THEN Quot(self.parent.val,
                                   self.daughter.val - self.parent.val)
                         ELSE Quot(self.daughter.val,
                                   self.parent.val - self.daughter.val)
                 z == z0 \cup (IF self.parent.val = self.daughter.val
                                  THEN {"parent-daughter"} ELSE {})
                 ix == iK0(x, special)
                 iy == iK0(y, special)
             IN  IF ix.none \/ iy.none
                 THEN Raise("TypeError", WithRuntime(ix.warns \cup iy.warns, z), z)
                 ELSE Ret([form |-> "Q/(2 pi r v) * coef * (iK0(a) - iK0(b))",
                           si |-> FALSE,
                           Q |-> self.Q, v |-> self.v, r |-> r.val, coef |-> coef,
                           a |-> IF lt THEN x ELSE y, b |-> IF lt THEN y ELSE x],
                          WithRuntime({}, z), z)

ColumnDensity(self, rho, eph, special) ==
    LET c == RhoAsLength(rho, eph)
    IN  IF c.exc # "" THEN Raise(c.exc, {}, {})
        ELSE ColumnDensityAt(self, c.r, special)

----------------------------------------------------------------------------
(* GasComa._integrate_column_density *)

\* the import without the try/except around it
ImportQuad_Uncaught(integrate) == IF integrate THEN "imported" ELSE "ImportError"

\* try: from scipy.integrate import quad, dblquad / except ImportError
ImportQuad(integrate) == IF integrate THEN "imported" ELSE "warn-return-None"

\* the second sector reusing the first sector's radial bound
RectSectors_SameBound(shape) ==
    << [tan |-> Quot(shape[1], shape[2]), bound |-> shape[1]],
       [tan |-> Quot(shape[2], shape[1]), bound |-> shape[1]] >>

\* the limits of the two dblquad calls over a rectangle of the given shape:
\* th runs over [0, atan(tan)] and rho over [0, bound / 2 / cos(th)]
RectSectors(shape) ==
    << [tan |-> Quot(shape[1], shape[2]), bound |-> shape[1]],
       [tan |-> Quot(shape[2], shape[1]), bound |-> shape[2]] >>

\* N1 + N2: floating-point addition commutes, so the sum is a bag of terms
SectorSum(sectors) == SetToBag({sectors[1]}) (+) SetToBag({sectors[2]})

\* f = lambda rho: rho * self.column_density(rho * u.km).value
Integrand(self) == [fn |-> "rho * column_density(rho km)", self |-> self]

IntegrateColumnDensity(self, aper, special, integrate) ==
    IF ImportQuad(integrate) = "warn-return-None"
    THEN Ret(NoneVal, {"AstropyWarning"}, {})
    ELSE IF ImportQuad(integrate) # "imported"
    THEN \* an exception the except clause does not catch
         Raise(ImportQuad(integrate), {}, {})
    ELSE IF aper.cls = "OtherAperture"
    THEN \* no branch binds N
         Raise("UnboundLocalError", {}, {})
    ELSE \* quad evaluates the integrand, which calls column_density
         LET f == ColumnDensityAt(self, Km(1), special)
         IN  IF f.kind = "raise" THEN f
             ELSE IF aper.cls = "CircularAperture"
             THEN Ret([form |-> "2 pi * quad(f, lo, hi)", si |-> FALSE,
                       f |-> Integrand(self), lo |-> 0, hi |-> aper.dims[1]],
                      f.warns, f.zerodiv)
             ELSE IF aper.cls = "AnnularAperture"
             THEN Ret([form |-> "2 pi * quad(f, lo, hi)", si |-> FALSE,
                       f |-> Integrand(self),
                       lo |-> aper.dims[1], hi |-> aper.dims[2]],
                      f.warns, f.zerodiv)
             ELSE IF aper.cls = "RectangularAperture"
             THEN Ret([form |-> "4 * (N1 + N2)", si |-> FALSE,
                       f |-> Integrand(self),
                       sum |-> SectorSum(RectSectors(aper.dims))],
                      f.warns, f.zerodiv)
             ELSE Ret([form |-> "2 pi * quad(f * aper, 0, inf)", si |-> FALSE,
                       f |-> Integrand(self), weight |-> aper.dims],
                      f.warns, f.zerodiv)

----------------------------------------------------------------------------
(* Haser.total_number *)

\* the closed form for a circular aperture of linear radius rho
CircularTotalNumber(self, rho, special) ==
    LET x == ScaledRadius(rho, self.parent)
        y == ScaledRadius(rho, self.daughter)
        z0 == ScaleZeroDiv(self)
    IN  IF IsNone(self.daughter) \/ IsZero(self.daughter)
        THEN LET k == K1(x, special)
             IN  IF k.none
                 THEN Raise("TypeError", WithRuntime(k.warns, z0), z0)
                 ELSE Ret(Decompose(
                          [form |-> "Q*L/v * (1 + arg*(K1(arg) + pi/2 - iK0(arg)))",
                           si |-> FALSE, Q |-> self.Q, v |-> self.v,
                           L |-> self.parent.val, arg |-> x]),
                          WithRuntime({}, z0), z0)
        ELSE IF IsNone(self.parent) \/ IsZero(self.parent)
        THEN LET k == K1(y, special)
             IN  IF k.none
                 THEN Raise("TypeError", WithRuntime(k.warns, z0), z0)
                 ELSE Ret(Decompose(
                          [form |-> "Q*L/v * (1 + arg*(K1(arg) + pi/2 - iK0(arg)))",
                           si |-> FALSE, Q |-> self.Q, v |-> self.v,
                           L |-> self.daughter.val, arg |-> y]),
                          WithRuntime({}, z0), z0)
        ELSE LET z == z0 \cup (IF self.parent.val = self.daughter.val
                                  THEN {"parent-daughter"} ELSE {})
                 iy == iK0(y, special)
                 ix == iK0(x, special)
             IN  IF iy.none \/ ix.none
                 THEN Raise("TypeError", WithRuntime(iy.warns \cup ix.warns, z), z)
                 ELSE Ret(Decompose(
                          [form |-> "Q*rho/v * coef * (iK0(y) - iK0(x) + 1/x - 1/y + K1(y) - K1(x))",
                           si |-> FALSE, Q |-> self.Q, v |-> self.v,
                           rho |-> rho.val,
                           coef |-> Quot(self.daughter.val,
                                         self.parent.val - self.daughter.val),
                           x |-> x, y |-> y]),
                          WithRuntime({}, z), z)

\* total_number(aper, eph) for aper that is no Aperture: a bare radius
RadiusTotalNumber(self, rho, eph, special) ==
    LET c == RhoAsLength(rho, eph)
    IN  IF c.exc # "" THEN Raise(c.exc, {}, {})
        ELSE CircularTotalNumber(self, c.r, special)

\* a - b on two call outcomes: the left operand is evaluated first
Minus(a, b) ==
    IF a.kind = "raise" THEN a
    ELSE IF b.kind = "raise"
         THEN Raise(b.exc, a.warns \cup b.warns, a.zerodiv \cup b.zerodiv)
    ELSE Ret([form |-> "a - b", si |-> TRUE, a |-> a.val, b |-> b.val],
             a.warns \cup b.warns, a.zerodiv \cup b.zerodiv)

\* the annulus with its two bounds taken in the other order
AnnularTotalNumber_Swapped(self, aper, special) ==
    Minus(RadiusTotalNumber(self, Km(aper.dims[1]), NoEph, special),
          RadiusTotalNumber(self, Km(aper.dims[2]), NoEph, special))

\* self.total_number(aper.shape[1]) - self.total_number(aper.shape[0])
AnnularTotalNumber(self, aper, special) ==
    Minus(RadiusTotalNumber(self, Km(aper.dims[2]), NoEph, special),
          RadiusTotalNumber(self, Km(aper.dims[1]), NoEph, special))

\* raise NotImplemented("..."): NotImplemented is not callable
RaiseNotImplemented == Raise("TypeError", {}, {})

TotalNumber(self, aper, eph, special, integrate) ==
    IF IsAperture(aper)
    THEN LET c == AsLength(aper, eph)
         IN  IF c.exc # "" THEN Raise(c.exc, {}, {})
             ELSE IF c.aper.cls \in {"RectangularAperture", "GaussianAperture"}
             THEN IntegrateColumnDensity(self, c.aper, special, integrate)
             ELSE IF c.aper.cls = "AnnularAperture"
             THEN AnnularTotalNumber(self, c.aper, special)
             ELSE IF c.aper.cls = "CircularAperture"
             THEN CircularTotalNumber(self, Km(c.aper.dims[1]), special)
             ELSE RaiseNotImplemented
    ELSE RadiusTotalNumber(self, aper, eph, special)

\* the conversion done in place on the object that was passed
CallerAperture_InPlace(aper, eph) ==
    IF IsAperture(aper) THEN AsLength(aper, eph).aper ELSE aper

\* aper = aper.as_length(eph) rebinds the local name: the caller's aperture
\* object is the one that was passed
CallerAperture(aper, eph) == aper

----------------------------------------------------------------------------
(* The caller: inputs and operations *)

QueryOps == {"volume_density", "column_density", "total_number",
             "_integrate_column_density"}

QInputs == {Qty(1, "1/s"), Qty(1, "mol/s"), Qty(1, "km"), Bare(1)}
vInputs == {Qty(1, "km/s"), Qty(1, "km")}
ParentInputs == {Km(n) : n \in 0..MaxLen} \cup {Qty(1, "s")}
DaughterInputs == {Km(n) : n \in 0..MaxLen} \cup {Qty(1, "s"), NoneObj}

Radii == {Km(n) : n \in 1..MaxLen}
RadiusInputs == Radii \cup {Qty(1, "arcsec"), Qty(1, "s")}
Ephems == {NoEph, Eph(2)}
\* eph is optional: callers pass one with angular arguments, or forget to
EphemsFor(arg) == IF arg.unit = "arcsec" THEN Ephems ELSE {NoEph}

AperturesIn(un) ==
    {Aper("CircularAperture", <<r>>, un) : r \in 1..MaxLen}
    \cup {Aper("AnnularAperture", <<d[1], d[2]>>, un) :
              d \in {e \in (1..MaxLen) \X (1..MaxLen) : e[1] < e[2]}}
    \cup {Aper("RectangularAperture", <<d[1], d[2]>>, un) :
              d \in (1..MaxLen) \X (1..MaxLen)}
    \cup {Aper("GaussianAperture", <<r>>, un) : r \in 1..MaxLen}
    \cup {Aper("OtherAperture", <<1>>, un)}

Apertures == AperturesIn("km") \cup AperturesIn("arcsec")

Query(op, self, arg, eph, special, integrate) ==
    CASE op = "volume_density" -> VolumeDensity(self, arg)
      [] op = "column_density" -> ColumnDensity(self, arg, eph, special)
      [] op = "total_number" -> TotalNumber(self, arg, eph, special, integrate)
      [] op = "_integrate_column_density" ->
             IntegrateColumnDensity(self, arg, special, integrate)

\* the record of a call: what was passed, what the caller's objects are
\* after it, and what came back
Called(op, arg, eph, argAfter, out) ==
    [op |-> op, ctor |-> <<>>, arg |-> arg, eph |-> eph, self |-> inst,
     argAfter |-> argAfter, ephAfter |-> eph,
     out |-> out, first |-> out, repeated |-> FALSE]

Idle(op, ctor, out) ==
    [op |-> op, ctor |-> ctor, arg |-> NoneObj, eph |-> NoEph, self |-> NoInst,
     argAfter |-> NoneObj, ephAfter |-> NoEph,
     out |-> out, first |-> out, repeated |-> FALSE]

Init ==
    /\ inst = NoInst
    /\ bib = {}
    /\ scipy_special \in BOOLEAN
    /\ scipy_integrate \in BOOLEAN
    /\ last = Idle("import", <<>>, Ret(NoneVal, {}, {}))

\* coma = Haser(Q, v, parent, daughter)
Construct(Q, v, parent, daughter) ==
    LET c == HaserInit(Q, v, parent, daughter)
    IN  /\ inst = NoInst
        /\ inst' = c.self
        /\ bib' = IF c.registered THEN bib \cup {"activity.gas.Haser"} ELSE bib
        /\ last' = Idle("__init__", <<Q, v, parent, daughter>>,
                        IF c.exc = "" THEN Ret(NoneVal, {}, {})
                        ELSE Raise(c.exc, {}, {}))
        /\ UNCHANGED <<scipy_special, scipy_integrate>>

\* the instance goes out of scope
Discard ==
    /\ inst # NoInst
    /\ inst' = NoInst
    /\ last' = Idle("del", <<>>, Ret(NoneVal, {}, {}))
    /\ UNCHANGED <<bib, scipy_special, scipy_integrate>>

VolumeDensityCall(r) ==
    /\ inst # NoInst
    /\ last' = Called("volume_density", r, NoEph, r, VolumeDensity(inst, r))
    /\ UNCHANGED <<inst, bib, scipy_special, scipy_integrate>>

ColumnDensityCall(rho, eph) ==
    /\ inst # NoInst
    /\ last' = Called("column_density", rho, eph, rho,
                      ColumnDensity(inst, rho, eph, scipy_special))
    /\ UNCHANGED <<inst, bib, scipy_special, scipy_integrate>>

TotalNumberCall(aper, eph) ==
    /\ inst # NoInst
    /\ last' = Called("total_number", aper, eph, CallerAperture(aper, eph),
                      TotalNumber(inst, aper, eph, scipy_special, scipy_integrate))
    /\ UNCHANGED <<inst, bib, scipy_special, scipy_integrate>>

\* _integrate_column_density(aper), aper in units of length
IntegrateCall(aper) ==
    /\ inst # NoInst
    /\ last' = Called("_integrate_column_density", aper, NoEph, aper,
                      IntegrateColumnDensity(inst, aper, scipy_special,
                                             scipy_integrate))
    /\ UNCHANGED <<inst, bib, scipy_special, scipy_integrate>>

\* the caller issues the last query again, with the same objects
Repeat ==
    /\ inst # NoInst
    /\ last.op \in QueryOps
    /\ ~last.repeated
    /\ last' = [last EXCEPT
                   !.self = inst,
                   !.arg = last.argAfter,
                   !.eph = last.ephAfter,
                   !.argAfter = IF last.op = "total_number"
                                THEN CallerAperture(last.argAfter, last.ephAfter)
                                ELSE last.argAfter,
                   !.out = Query(last.op, inst, last.argAfter, last.ephAfter,
                                 scipy_special, scipy_integrate),
                   !.repeated = TRUE]
    /\ UNCHANGED <<inst, bib, scipy_special, scipy_integrate>>

Next ==
    \/ \E Q \in QInputs, v \in vInputs, parent \in ParentInputs,
          daughter \in DaughterInputs : Construct(Q, v, parent, daughter)
    \/ Discard
    \/ \E r \in RadiusInputs : VolumeDensityCall(r)
    \/ \E rho \in RadiusInputs : \E eph \in EphemsFor(rho) :
           ColumnDensityCall(rho, eph)
    \/ \E aper \in Apertures \cup RadiusInputs : \E eph \in EphemsFor(aper) :
           TotalNumberCall(aper, eph)
    \/ \E aper \in AperturesIn("km") : IntegrateCall(aper)
    \/ Repeat

Spec == Init /\ [][Next]_vars

----------------------------------------------------------------------------
(* Properties *)

\* an argument the geometry collaborator can express in linear units
Convertible(arg, eph) == arg.unit = "km" \/ (arg.unit = "arcsec" /\ ~IsNone(eph))

ValidQ(Q) == Q.cls = "Quantity" /\ (Q.unit = "1/s" \/ Q.unit = "mol/s")
Validv(v) == v.cls = "Quantity" /\ v.unit = "km/s"
ValidLengthscale(x) == x.cls = "Quantity" /\ x.unit = "km"

\* C1: constructing a coma model with Q that is neither inverse time nor
\* amount per time, v that is not length per time, or a lengthscale that is
\* not a length raises a validation (assertion) error and produces no
\* instance; every instance that exists, and so every instance a query runs
\* on, holds parameters of the right dimensions.
C1_InvalidConstructionFails ==
    /\ inst # NoInst =>
           /\ ValidQ(inst.Q)
           /\ Validv(inst.v)
           /\ ValidLengthscale(inst.parent)
           /\ (IsNone(inst.daughter) \/ ValidLengthscale(inst.daughter))
    /\ last.op \in QueryOps => inst # NoInst
    /\ (/\ last.op = "__init__"
        /\ \/ ~ValidQ(last.ctor[1])
           \/ ~Validv(last.ctor[2])
           \/ ~ValidLengthscale(last.ctor[3])
           \/ ~(IsNone(last.ctor[4]) \/ ValidLengthscale(last.ctor[4])))
       => /\ last.out.kind = "raise"
          /\ last.out.exc = "AssertionError"
          /\ inst = NoInst

C1_Witness ==
    /\ last.op = "__init__"
    /\ last.ctor[1] = Qty(1, "km")
    /\ last.out.kind = "raise"
    /\ inst = NoInst

\* the calls that need the K0 integral or K1
NeedsSpecial ==
    \/ last.op = "column_density" /\ Convertible(last.arg, last.eph)
    \/ /\ last.op = "total_number"
       /\ Convertible(last.arg, last.eph)
       /\ last.arg.cls \in {"Quantity", "CircularAperture", "AnnularAperture"}

\* C2: without the special-function library, every Haser call that needs the
\* K0 integral or K1 emits a diagnostic warning and returns None; it never
\* ends in a raised error.
C2_SoftDegradeReturnsNone ==
    (~scipy_special /\ NeedsSpecial)
        => /\ last.out.kind = "return"
           /\ last.out.val = NoneVal
           /\ "AstropyWarning" \in last.out.warns

\* C3: without the quadrature library, _integrate_column_density warns and
\* returns None for every aperture kind, before the integrand is evaluated,
\* and total_number on a rectangular or Gaussian aperture hands that None to
\* its caller without raising.
C3_NoQuadReturnsNone ==
    ~scipy_integrate =>
        /\ last.op = "_integrate_column_density"
               => last.out = Ret(NoneVal, {"AstropyWarning"}, {})
        /\ (/\ last.op = "total_number"
            /\ last.arg.cls \in {"RectangularAperture", "GaussianAperture"}
            /\ Convertible(last.arg, last.eph))
               => /\ last.out.kind = "return"
                  /\ last.out.val = NoneVal
                  /\ last.out.warns = {"AstropyWarning"}
                  /\ last.out.zerodiv = {}

C3_Witness ==
    /\ ~scipy_integrate
    /\ last.op = "total_number"
    /\ last.arg.cls = "RectangularAperture"
    /\ last.arg.unit = "arcsec"
    /\ IsZero(inst.parent)
    /\ last.out.kind = "return"
    /\ last.out.val = NoneVal

\* C4: total_number on an aperture that is none of circular, annular,
\* rectangular or Gaussian ends in an explicit not-implemented error.
C4_UnsupportedApertureNotImplemented ==
    (/\ last.op = "total_number"
     /\ last.arg.cls = "OtherAperture"
     /\ Convertible(last.arg, last.eph))
        => /\ last.out.kind = "raise"
           /\ last.out.exc = "NotImplementedError"

\* C5: with parent and daughter both nonzero and exactly equal, no
\* volume_density, column_density or circular total_number call completes
\* and returns a result computed with the zero denominator parent - daughter.
C5_EqualLengthscalesRejected ==
    (/\ \/ last.op \in {"volume_density", "column_density"}
        \/ /\ last.op = "total_number"
           /\ last.arg.cls \in {"Quantity", "CircularAperture"}
     /\ IsQuantity(inst.daughter)
     /\ inst.parent.val = inst.daughter.val
     /\ inst.parent.val # 0)
        => ~(last.out.kind = "return" /\ "parent-daughter" \in last.out.zerodiv)

\* a circular aperture of the given radius in the units of the annulus
CircleOf(annulus, i) == Aper("CircularAperture", <<annulus.dims[i]>>, annulus.unit)

\* C6: total_number on an annulus [r1, r2] (linear, or angular with an
\* ephemeris) is total_number of the circular aperture r2 minus that of the
\* circular aperture r1, both circular values taken from the closed form of
\* the same lengthscale case; when the outer circular value cannot be
\* computed the annulus ends the same way.
C6_AnnulusIsOuterMinusInner ==
    (/\ last.op = "total_number"
     /\ last.arg.cls = "AnnularAperture"
     /\ Convertible(last.arg, last.eph))
        => LET outer == TotalNumber(inst, CircleOf(last.arg, 2), last.eph,
                                    scipy_special, scipy_integrate)
               inner == TotalNumber(inst, CircleOf(last.arg, 1), last.eph,
                                    scipy_special, scipy_integrate)
           IN  IF outer.kind = "return" /\ inner.kind = "return"
               THEN /\ last.out.kind = "return"
                    /\ last.out.val.form = "a - b"
                    /\ last.out.val.a = outer.val
                    /\ last.out.val.b = inner.val
                    /\ outer.val.form = inner.val.form
               ELSE /\ last.out.kind = "raise"
                    /\ last.out.exc = (IF outer.kind = "raise"
                                       THEN outer.exc ELSE inner.exc)

C6_Witness ==
    /\ last.op = "total_number"
    /\ last.arg.cls = "AnnularAperture"
    /\ last.arg.unit = "arcsec"
    /\ ~IsNone(last.eph)
    /\ last.out.kind = "return"
    /\ last.out.val.form = "a - b"
    /\ last.out.val.a # last.out.val.b

\* the queries on which the parent-only closed form is selected
ParentOnlyQuery ==
    \/ last.op \in {"volume_density", "column_density"}
    \/ /\ last.op = "total_number"
       /\ last.arg.cls \in {"Quantity", "CircularAperture"}

\* C7: a daughter lengthscale of exactly zero yields, in volume_density,
\* column_density and circular total_number, the same result as an absent
\* daughter, and the zero daughter is never used as a divisor on the way.
C7_ZeroDaughterSameAsAbsent ==
    (ParentOnlyQuery /\ IsZero(inst.daughter))
        => /\ last.out =
                  Query(last.op, [inst EXCEPT !.daughter = NoneObj],
                        last.arg, last.eph, scipy_special, scipy_integrate)
           /\ "daughter" \notin last.out.zerodiv

\* the rectangle with its two dimensions swapped
Swapped(aper) == [aper EXCEPT !.dims = <<aper.dims[2], aper.dims[1]>>]

RectQuery ==
    /\ last.op \in {"total_number", "_integrate_column_density"}
    /\ last.arg.cls = "RectangularAperture"
    /\ Convertible(last.arg, last.eph)

\* C8: integrating over a rectangle of shape (a, b) and over shape (b, a)
\* evaluates the same two sector integrals (same angular limit with the same
\* radial bound) in the other order, and returns the same total.
C8_RectangleSwapInvariant ==
    RectQuery
        => /\ last.out = Query(last.op, inst, Swapped(last.arg), last.eph,
                               scipy_special, scipy_integrate)
           /\ RectSectors(Swapped(last.arg).dims)
                  = << RectSectors(last.arg.dims)[2],
                       RectSectors(last.arg.dims)[1] >>

C8_Witness ==
    /\ RectQuery
    /\ last.arg.dims[1] # last.arg.dims[2]
    /\ last.out.kind = "return"
    /\ last.out.val.form = "4 * (N1 + N2)"

C10_RectangleSectors ==
    (/\ last.op = "_integrate_column_density"
     /\ last.arg.cls = "RectangularAperture"
     /\ last.out.kind = "return"
     /\ last.out.val # NoneVal)
        => /\ last.out.val.form = "4 * (N1 + N2)"
           /\ last.out.val.sum =
                  SetToBag({[tan |-> Quot(last.arg.dims[1], last.arg.dims[2]),
                             bound |-> last.arg.dims[2]]})
                  (+) SetToBag({[tan |-> Quot(last.arg.dims[2], last.arg.dims[1]),
                                 bound |-> last.arg.dims[1]]})

====
